---- MODULE Spec2Model ----
(***************************************************************************)
(* A model of the movie bot of src/main.py: the aiogram message and        *)
(* callback handlers, the per-user FSM storage (MemoryStorage), the five   *)
(* PostgreSQL tables of init_db, and the APScheduler one-shot reminder     *)
(* jobs.  A handler is a task that advances from one suspension point      *)
(* (store I/O, outbound message) to the next; Spec runs one handler at a   *)
(* time to its end, ConcSpec lets up to MaxTasks handlers interleave.      *)
(* TwoSpec and LongSpec follow the admin alone, with two movies or for one *)
(* update more; LiveSpec is Spec for the admin with polling that goes on   *)
(* for ever and the fairness of a user who keeps sending updates.          *)
(***************************************************************************)
EXTENDS Integers, Sequences, FiniteSets, TLC

(* ---------------------------------------------------------------- bounds *)
\* updates (messages and button presses) the bot receives in one run
MaxEvents == 3
\* the clock runs over 0..MaxTime (whole minutes, floor of datetime.now())
MaxTime == 1
\* handlers in flight at once under ConcSpec
MaxTasks == 2

(* ---------------------------------------------------------- environment *)
\* ADMIN_IDS, parsed from the environment at start-up
ADMIN_IDS == {1}
\* the users (private chats) that talk to the bot
Users == {1, 2}
\* file ids of uploaded videos, opaque to the bot
Videos == {"v1", "v2"}
\* a missing file id: data.get("video_file_id") is None, fetchval found no row
NoFile == "none"
\* a missing movie id: data.get("movie_id") is None
NoMovie == -1
\* the FSM state None
NoState == "none"
\* the star buttons movie_buttons builds: range(1, 6)
Stars == 1..5
\* the star buttons the users press
StarsPressed == {2, 5}
\* the datetimes a user types (minutes on the clock's scale)
DateTimes == 1..MaxTime

(* ------------------------------------------------------ digits and ints *)
\* the decimal digits of 2^31 - 1, the largest value of an INTEGER column
Int32MaxDigits == <<2, 1, 4, 7, 4, 8, 3, 6, 4, 7>>
\* the all-digit texts a user types: "1", "2", "01" and "2147483648"
DigitTexts == {<<1>>, <<2>>, <<0, 1>>, <<2, 1, 4, 7, 4, 8, 3, 6, 4, 8>>}

RECURSIVE StripZeros(_)
StripZeros(ds) ==
    IF Len(ds) > 1 /\ Head(ds) = 0 THEN StripZeros(Tail(ds)) ELSE ds

RECURSIVE LexLeq(_, _)
\* a <= b for digit strings of one length
LexLeq(a, b) ==
    IF a = <<>> THEN TRUE
    ELSE IF Head(a) # Head(b) THEN Head(a) < Head(b)
    ELSE LexLeq(Tail(a), Tail(b))

\* asyncpg encodes the argument of an INTEGER column as int4 and raises
\* "value out of int32 range" otherwise
FitsInt32(ds) ==
    LET s == StripZeros(ds)
    IN  \/ Len(s) < Len(Int32MaxDigits)
        \/ Len(s) = Len(Int32MaxDigits) /\ LexLeq(s, Int32MaxDigits)

RECURSIVE IntOf(_)
\* int(text) of an all-digit text
IntOf(ds) ==
    IF ds = <<>> THEN 0
    ELSE 10 * IntOf(SubSeq(ds, 1, Len(ds) - 1)) + ds[Len(ds)]

RECURSIVE StrOf(_)
\* f"{movie_id}": the decimal digits of a number >= 0
StrOf(n) ==
    IF n < 10 THEN <<n>> ELSE Append(StrOf(n \div 10), n % 10)

\* the movie numbers the typed texts can denote
Numbers == {IntOf(d) : d \in {x \in DigitTexts : FitsInt32(x)}}

(* ------------------------------------------------------------- updates *)
Commands == {"start", "admin", "reviews", "myfavorites", "mystats"}

Text(k, c, d, t) == [k |-> k, c |-> c, d |-> d, t |-> t]
\* message.text is None (a video, a sticker)
NoText == Text("none", "", <<>>, 0)
\* the texts a user types: a command, all digits, "+" and digits, a datetime
\* in the format YYYY-MM-DD HH:MM, or other words
Texts ==
    {Text("cmd", c, <<>>, 0) : c \in Commands}
    \cup {Text("digits", "", d, 0) : d \in DigitTexts}
    \cup {Text("plus", "", d, 0) : d \in DigitTexts}
    \cup {Text("datetime", "", <<>>, t) : t \in DateTimes}
    \cup {Text("words", "", <<>>, 0)}

Update(type, text, video, action, id, star) ==
    [type |-> type, text |-> text, video |-> video,
     action |-> action, id |-> id, star |-> star]

\* a message: a text, a video (message.text is None) or neither (a sticker)
Messages ==
    {Update("message", x, NoFile, "", <<>>, 0) : x \in Texts}
    \cup {Update("message", NoText, v, "", <<>>, 0) : v \in Videos}
    \cup {Update("message", NoText, NoFile, "", <<>>, 0)}

\* the callback data of the buttons of movie_buttons(movie_id)
movie_buttons(movie_id) ==
    {Update("callback", NoText, NoFile, a, StrOf(movie_id), 0) :
        a \in {"fav", "review", "remind"}}
    \cup {Update("callback", NoText, NoFile, "rate", StrOf(movie_id), i) :
        i \in Stars}

(* --------------------------------------------------------------- state *)
VARIABLES
    clock,          \* floor of datetime.now(), in minutes
    storage,        \* MemoryStorage: per user, the FSM state and its data
    movie_files,    \* table movie_files: rows [number, file_id]
    favorites,      \* table favorites: the number of rows per (user, movie)
    reviews,        \* table reviews: rows in insertion order
    reminders,      \* table reminders: rows in insertion order
    ratings,        \* table ratings: rows [user_id, movie_id, stars]
    messagesTable,  \* whether the database holds a table "messages"
    jobs,           \* the scheduler's jobs, in the order add_job made them
    tasks,          \* the handlers in flight, each at a suspension point
    concurrency,    \* how many updates the dispatcher handles at once
    senders,        \* the users who send updates in this run
    budget,         \* how many updates this run follows
    buttons,        \* the keyboards delivered: (user, movie) pairs
    lastOut,        \* the last outbound message (or escaped exception)
    handled,        \* the last update routed: handler, user, update, state
    events,         \* updates received so far
    uploads,        \* per number, the file ids saved for it, oldest first
    votes,          \* per (user, movie), the stars voted, oldest first
    favPresses,     \* per (user, movie), the favorite presses handled
    pressed         \* per user, the movie of the last review / reminder press

db == <<movie_files, favorites, reviews, reminders, ratings>>
history == <<uploads, votes, favPresses, pressed>>
\* what a run fixes at its start
polling == <<concurrency, senders, budget>>
vars == <<clock, storage, movie_files, favorites, reviews, reminders, ratings,
          messagesTable, jobs, tasks, concurrency, senders, budget, buttons,
          lastOut, handled, events, uploads, votes, favPresses, pressed>>

States == {NoState, "waiting_for_video", "waiting_for_number",
           "waiting_for_review", "waiting_for_datetime"}

\* the data dict of a user: {} is both keys missing
Data(video_file_id, movie_id) ==
    [video_file_id |-> video_file_id, movie_id |-> movie_id]
\* state.clear(): set_state(None) and set_data({})
Cleared == [state |-> NoState, data |-> Data(NoFile, NoMovie)]

Pairs == Users \X Numbers

(* ------------------------------------------------------------ the store *)
\* SELECT file_id FROM movie_files WHERE number=$1
FetchFileId(num) ==
    IF \E r \in movie_files : r.number = num
    THEN (CHOOSE r \in movie_files : r.number = num).file_id
    ELSE NoFile

\* a slip: ON CONFLICT (number) DO NOTHING, the first upload stays
InsertMovieDoNothing(num, file_id) ==
    IF \E r \in movie_files : r.number = num THEN movie_files
    ELSE movie_files \cup {[number |-> num, file_id |-> file_id]}

\* INSERT INTO movie_files ... ON CONFLICT (number) DO UPDATE SET file_id
UpsertMovie(num, file_id) ==
    {r \in movie_files : r.number # num}
    \cup {[number |-> num, file_id |-> file_id]}

\* INSERT INTO favorites ... ON CONFLICT DO NOTHING
InsertFavorite(user_id, movie_id) ==
    IF favorites[<<user_id, movie_id>>] > 0 THEN favorites
    ELSE [favorites EXCEPT ![<<user_id, movie_id>>] = 1]

\* a slip: the DELETE matches no row
DeleteNoFavorite(user_id, movie_id) == favorites

\* DELETE FROM favorites WHERE user_id=$1 AND movie_id=$2
DeleteFavorite(user_id, movie_id) ==
    [favorites EXCEPT ![<<user_id, movie_id>>] = 0]

\* a slip: ON CONFLICT DO NOTHING, the first vote stays
InsertRatingDoNothing(user_id, movie_id, star) ==
    IF \E r \in ratings : r.user_id = user_id /\ r.movie_id = movie_id
    THEN ratings
    ELSE ratings \cup {[user_id |-> user_id, movie_id |-> movie_id,
                        stars |-> star]}

\* INSERT INTO ratings ... ON CONFLICT (user_id, movie_id) DO UPDATE SET stars
UpsertRating(user_id, movie_id, star) ==
    {r \in ratings : ~(r.user_id = user_id /\ r.movie_id = movie_id)}
    \cup {[user_id |-> user_id, movie_id |-> movie_id, stars |-> star]}

RECURSIVE SumStars(_)
SumStars(rows) ==
    IF rows = {} THEN 0
    ELSE LET r == CHOOSE x \in rows : TRUE
         IN  r.stars + SumStars(rows \ {r})

\* SELECT AVG(stars) FROM ratings WHERE movie_id=$1, as <<sum, count>>;
\* count 0 is the NULL of an empty selection
AvgStars(movie_id) ==
    LET rows == {r \in ratings : r.movie_id = movie_id}
    IN  <<SumStars(rows), Cardinality(rows)>>

\* f"{avg_rating:.1f}" of a Decimal: tenths, rounded half to even
Tenths(avg) ==
    LET q == (10 * avg[1]) \div avg[2]
        r == (10 * avg[1]) % avg[2]
    IN  IF 2 * r > avg[2] THEN q + 1
        ELSE IF 2 * r = avg[2] THEN q + (q % 2)
        ELSE q

(* ----------------------------------------------------------- the router *)
\* the message handlers in the order main.py registers them
HandlerOrder ==
    <<"cmd_start", "movie_select", "cmd_admin", "admin_receive_video",
      "admin_receive_number", "cmd_reviews", "process_review",
      "process_reminder", "cmd_myfavorites", "cmd_mystats", "unknown_message">>

IsCommand(upd, c) == upd.text.k = "cmd" /\ upd.text.c = c

\* the filter each message handler is registered with
Filter(h, st, upd) ==
    CASE h = "cmd_start" -> IsCommand(upd, "start")
      [] h = "movie_select" -> upd.text.k = "digits"
      [] h = "cmd_admin" -> IsCommand(upd, "admin")
      [] h = "admin_receive_video" -> st = "waiting_for_video"
      [] h = "admin_receive_number" -> st = "waiting_for_number"
      [] h = "cmd_reviews" -> IsCommand(upd, "reviews")
      [] h = "process_review" -> st = "waiting_for_review"
      [] h = "process_reminder" -> st = "waiting_for_datetime"
      [] h = "cmd_myfavorites" -> IsCommand(upd, "myfavorites")
      [] h = "cmd_mystats" -> IsCommand(upd, "mystats")
      [] h = "unknown_message" -> TRUE

RECURSIVE FirstMatch(_, _, _)
\* the first handler from place k on whose filter lets the update through
FirstMatch(k, st, upd) ==
    IF Filter(HandlerOrder[k], st, upd) THEN HandlerOrder[k]
    ELSE FirstMatch(k + 1, st, upd)

\* the dispatcher's choice for every state and message
MessageRoute == [st \in States, upd \in Messages |-> FirstMatch(1, st, upd)]

\* the handler that takes an update: the first registered one whose filter
\* matches; a callback goes by the prefix of its data
Route(st, upd) ==
    IF upd.type = "callback" THEN
        CASE upd.action = "fav" -> "callback_fav"
          [] upd.action = "review" -> "callback_review"
          [] upd.action = "rate" -> "callback_rate"
          [] upd.action = "remind" -> "callback_remind"
    ELSE
        MessageRoute[st, upd]

(* ---------------------------------------------------------------- tasks *)
Slots == 1..MaxTasks

NoUpdate == Update("none", NoText, NoFile, "", <<>>, 0)

Task(h, u, upd, pc, movie_id, file_id, existing, dt) ==
    [h |-> h, u |-> u, upd |-> upd, pc |-> pc, movie_id |-> movie_id,
     file_id |-> file_id, existing |-> existing, dt |-> dt]

Idle == Task("idle", 0, NoUpdate, "", NoMovie, NoFile, FALSE, 0)

InFlight == {s \in Slots : tasks[s].h # "idle"}

FreeSlot == CHOOSE s \in Slots : tasks[s].h = "idle" /\
                \A x \in Slots : tasks[x].h = "idle" => s <= x

\* the handler suspends: it is a task from now on
Suspend(task) == tasks' = [tasks EXCEPT ![FreeSlot] = task]
\* a task moves to its next suspension point
Resume(s, pc) == tasks' = [tasks EXCEPT ![s].pc = pc]
\* a task returns, or its exception escapes
Return(s) == tasks' = [tasks EXCEPT ![s] = Idle]

At(s, h, pc) == tasks[s].h = h /\ tasks[s].pc = pc

(* -------------------------------------------------------------- replies *)
Out(to, kind, file_id, num, line, tenths) ==
    [to |-> to, kind |-> kind, file_id |-> file_id, num |-> num,
     line |-> line, tenths |-> tenths]

\* message.answer / callback.answer of a fixed text
Answer(to, kind) == lastOut' = Out(to, kind, NoFile, NoMovie, FALSE, 0)
\* an exception leaves the handler: the dispatcher logs it, nothing is sent
Raise(to) == lastOut' = Out(to, "exception", NoFile, NoMovie, FALSE, 0)

\* a slip: callback data made up by the user, for any movie number
PressesForged(u) ==
    {p \in UNION {movie_buttons(n) : n \in Numbers} :
        p.action = "rate" => p.star \in StarsPressed}

\* the buttons a user can press: those of the keyboards delivered to them
Presses(u) ==
    {p \in UNION {movie_buttons(b[2]) : b \in {x \in buttons : x[1] = u}} :
        p.action = "rate" => p.star \in StarsPressed}

\* the dispatcher takes the next update of user u and routes it to handler h
Begin(h, u, upd) ==
    /\ events < budget
    /\ Cardinality(InFlight) < concurrency
    /\ Route(storage[u].state, upd) = h
    /\ events' = events + 1
    /\ handled' = [h |-> h, u |-> u, upd |-> upd, st |-> storage[u].state,
                   nreviews |-> Len(reviews)]

(* ------------------------------------------------------------- handlers *)
\* a slip: the allow-list is not consulted
IsAdminAnyone(u) == u \in Users

\* message.from_user.id not in ADMIN_IDS, negated
IsAdmin(u) == u \in ADMIN_IDS

\* /start: the favorites of the user, then the prompt (or "no movies yet")
cmd_start(u, upd) ==
    /\ Begin("cmd_start", u, upd)
    /\ Answer(u, IF movie_files = {} THEN "no_movies" ELSE "choose_movie")
    /\ UNCHANGED <<clock, storage, db, messagesTable, jobs, tasks, polling,
                   buttons, history>>

\* an all-digit text: the movie of that number, with its keyboard
movie_select(u, upd) ==
    /\ Begin("movie_select", u, upd)
    /\ IF ~FitsInt32(upd.text.d)
       THEN Raise(u) /\ UNCHANGED buttons
       ELSE LET num == IntOf(upd.text.d)
                file_id == FetchFileId(num)
                avg_rating == AvgStars(num)
            IN  IF file_id # NoFile
                THEN /\ lastOut' = Out(u, "video", file_id, num,
                                       avg_rating[2] > 0,
                                       IF avg_rating[2] > 0
                                       THEN Tenths(avg_rating) ELSE 0)
                     /\ buttons' = buttons \cup {<<u, num>>}
                ELSE Answer(u, "not_found") /\ UNCHANGED buttons
    /\ UNCHANGED <<clock, storage, db, messagesTable, jobs, tasks, polling,
                   history>>

\* /admin: the allow-list check and the welcome message
cmd_admin(u, upd) ==
    /\ Begin("cmd_admin", u, upd)
    /\ IF ~IsAdmin(u)
       THEN Answer(u, "contact_admin") /\ UNCHANGED tasks
       ELSE /\ Answer(u, "admin_welcome")
            /\ Suspend(Task("cmd_admin", u, upd, "set_state",
                            NoMovie, NoFile, FALSE, 0))
    /\ UNCHANGED <<clock, storage, db, messagesTable, jobs, polling,
                   buttons, history>>

\* /admin, after the welcome message: set_state(waiting_for_video)
cmd_admin_set_state(s) ==
    /\ At(s, "cmd_admin", "set_state")
    /\ storage' = [storage EXCEPT ![tasks[s].u].state = "waiting_for_video"]
    /\ Return(s)
    /\ UNCHANGED <<clock, db, messagesTable, jobs, polling, buttons,
                   lastOut, handled, events, history>>

\* waiting_for_video: a message without a video is refused, a video is kept
admin_receive_video(u, upd) ==
    /\ Begin("admin_receive_video", u, upd)
    /\ IF upd.video = NoFile
       THEN Answer(u, "only_video") /\ UNCHANGED <<storage, tasks>>
       ELSE /\ storage' = [storage EXCEPT ![u].data.video_file_id = upd.video]
            /\ Answer(u, "video_accepted")
            /\ Suspend(Task("admin_receive_video", u, upd, "set_state",
                            NoMovie, NoFile, FALSE, 0))
    /\ UNCHANGED <<clock, db, messagesTable, jobs, polling, buttons,
                   history>>

\* waiting_for_video, after the reply: set_state(waiting_for_number)
admin_receive_video_set_state(s) ==
    /\ At(s, "admin_receive_video", "set_state")
    /\ storage' = [storage EXCEPT ![tasks[s].u].state = "waiting_for_number"]
    /\ Return(s)
    /\ UNCHANGED <<clock, db, messagesTable, jobs, polling, buttons,
                   lastOut, handled, events, history>>

\* waiting_for_number: the text is checked and the pending video read
admin_receive_number(u, upd) ==
    /\ Begin("admin_receive_number", u, upd)
    /\ IF upd.text = NoText
       THEN Raise(u) /\ UNCHANGED tasks
       ELSE IF upd.text.k # "plus"
       THEN Answer(u, "plus_number_please") /\ UNCHANGED tasks
       ELSE LET file_id == storage[u].data.video_file_id
            IN  IF file_id = NoFile
                THEN /\ Answer(u, "video_missing")
                     /\ Suspend(Task("admin_receive_number", u, upd, "clear",
                                     NoMovie, NoFile, FALSE, 0))
                ELSE /\ UNCHANGED lastOut
                     /\ Suspend(Task("admin_receive_number", u, upd, "execute",
                                     NoMovie, file_id, FALSE, 0))
    /\ UNCHANGED <<clock, storage, db, messagesTable, jobs, polling,
                   buttons, history>>

\* waiting_for_number: the upsert of the movie row and the confirmation
admin_receive_number_execute(s) ==
    /\ At(s, "admin_receive_number", "execute")
    /\ LET t == tasks[s]
       IN  IF ~FitsInt32(t.upd.text.d)
           THEN /\ Raise(t.u)
                /\ Return(s)
                /\ UNCHANGED <<movie_files, uploads>>
           ELSE LET num == IntOf(t.upd.text.d)
                IN  /\ movie_files' = UpsertMovie(num, t.file_id)
                    /\ uploads' = [uploads EXCEPT ![num] = Append(@, t.file_id)]
                    /\ Answer(t.u, "movie_saved")
                    /\ Resume(s, "clear")
    /\ UNCHANGED <<clock, storage, favorites, reviews, reminders, ratings,
                   messagesTable, jobs, polling, buttons, handled, events,
                   votes, favPresses, pressed>>

\* waiting_for_number, last step: state.clear()
admin_receive_number_clear(s) ==
    /\ At(s, "admin_receive_number", "clear")
    /\ storage' = [storage EXCEPT ![tasks[s].u] = Cleared]
    /\ Return(s)
    /\ UNCHANGED <<clock, db, messagesTable, jobs, polling, buttons,
                   lastOut, handled, events, history>>

\* /reviews: the last reviews, joined with table messages, for an admin
cmd_reviews(u, upd) ==
    /\ Begin("cmd_reviews", u, upd)
    /\ IF ~IsAdmin(u) THEN Answer(u, "contact_admin")
       ELSE IF ~messagesTable THEN Raise(u)
       ELSE Answer(u, IF reviews = <<>> THEN "no_reviews" ELSE "reviews_list")
    /\ UNCHANGED <<clock, storage, db, messagesTable, jobs, tasks, polling,
                   buttons, history>>

\* the favorite button: does the movie exist, is the pair a favorite already
callback_fav(u, upd) ==
    /\ Begin("callback_fav", u, upd)
    /\ LET movie_id == IntOf(upd.id)
       IN  IF FetchFileId(movie_id) = NoFile
           THEN /\ Answer(u, "no_such_movie")
                /\ favPresses' = [favPresses EXCEPT ![<<u, movie_id>>] = @ + 1]
                /\ UNCHANGED tasks
           ELSE /\ Suspend(Task("callback_fav", u, upd, "write", movie_id,
                                NoFile, favorites[<<u, movie_id>>] > 0, 0))
                /\ UNCHANGED <<lastOut, favPresses>>
    /\ UNCHANGED <<clock, storage, db, messagesTable, jobs, polling,
                   buttons, uploads, votes, pressed>>

\* the favorite button: delete the row that was found, or insert one
callback_fav_write(s) ==
    /\ At(s, "callback_fav", "write")
    /\ LET t == tasks[s]
       IN  /\ IF t.existing
              THEN /\ favorites' = DeleteFavorite(t.u, t.movie_id)
                   /\ Answer(t.u, "favorite_removed")
              ELSE /\ favorites' = InsertFavorite(t.u, t.movie_id)
                   /\ Answer(t.u, "favorite_added")
           /\ favPresses' = [favPresses EXCEPT ![<<t.u, t.movie_id>>] = @ + 1]
    /\ Return(s)
    /\ UNCHANGED <<clock, storage, movie_files, reviews, reminders, ratings,
                   messagesTable, jobs, polling, buttons, handled, events,
                   uploads, votes, pressed>>

\* a slip: a movie_id already in the data is kept
update_data_setdefault(data, movie_id) ==
    IF data.movie_id # NoMovie THEN data ELSE [data EXCEPT !.movie_id = movie_id]

\* state.update_data(movie_id=movie_id): the key is set, the others stay
update_data(data, movie_id) == [data EXCEPT !.movie_id = movie_id]

\* the review button: update_data(movie_id), set_state(waiting_for_review);
\* the coroutines of MemoryStorage await nothing, so the handler is not
\* suspended before, between or after the two
callback_review(u, upd) ==
    /\ Begin("callback_review", u, upd)
    /\ storage' = [storage EXCEPT
                      ![u] = [state |-> "waiting_for_review",
                              data |-> update_data(@.data, IntOf(upd.id))]]
    /\ pressed' = [pressed EXCEPT ![u].review = IntOf(upd.id)]
    /\ Answer(u, "write_review")
    /\ UNCHANGED <<clock, db, messagesTable, jobs, tasks, polling, buttons,
                   uploads, votes, favPresses>>

\* waiting_for_review: the pending movie is read
process_review(u, upd) ==
    /\ Begin("process_review", u, upd)
    /\ Suspend(Task("process_review", u, upd, "execute",
                    storage[u].data.movie_id, NoFile, FALSE, 0))
    /\ UNCHANGED <<clock, storage, db, messagesTable, jobs, polling,
                   buttons, lastOut, history>>

\* waiting_for_review: the insert into reviews, the upsert into messages
\* (each its own transaction) and the confirmation
process_review_execute(s) ==
    /\ At(s, "process_review", "execute")
    /\ LET t == tasks[s]
       IN  IF t.upd.text = NoText \/ t.movie_id = NoMovie
           THEN \* NOT NULL violation on text or movie_id
                /\ Raise(t.u)
                /\ Return(s)
                /\ UNCHANGED reviews
           ELSE /\ reviews' = Append(reviews, [user_id |-> t.u,
                                               movie_id |-> t.movie_id,
                                               text |-> t.upd.text])
                /\ IF ~messagesTable
                   THEN Raise(t.u) /\ Return(s)
                   ELSE Answer(t.u, "review_saved") /\ Resume(s, "clear")
    /\ UNCHANGED <<clock, storage, movie_files, favorites, reminders, ratings,
                   messagesTable, jobs, polling, buttons, handled, events,
                   history>>

\* waiting_for_review, last step: state.clear()
process_review_clear(s) ==
    /\ At(s, "process_review", "clear")
    /\ storage' = [storage EXCEPT ![tasks[s].u] = Cleared]
    /\ Return(s)
    /\ UNCHANGED <<clock, db, messagesTable, jobs, polling, buttons,
                   lastOut, handled, events, history>>

\* a star button: the upsert of the vote
callback_rate(u, upd) ==
    /\ Begin("callback_rate", u, upd)
    /\ LET movie_id == IntOf(upd.id)
       IN  /\ ratings' = UpsertRating(u, movie_id, upd.star)
           /\ votes' = [votes EXCEPT ![<<u, movie_id>>] = Append(@, upd.star)]
           /\ Suspend(Task("callback_rate", u, upd, "answer", movie_id,
                           NoFile, FALSE, 0))
    /\ UNCHANGED <<clock, storage, movie_files, favorites, reviews, reminders,
                   messagesTable, jobs, polling, buttons, lastOut,
                   uploads, favPresses, pressed>>

\* a star button: the new average, in the caption and in the answer
callback_rate_answer(s) ==
    /\ At(s, "callback_rate", "answer")
    /\ LET t == tasks[s]
           avg_rating == AvgStars(t.movie_id)
       IN  IF avg_rating[2] = 0
           THEN Raise(t.u)  \* format of None
           ELSE lastOut' = Out(t.u, "rated", NoFile, t.movie_id, TRUE,
                               Tenths(avg_rating))
    /\ Return(s)
    /\ UNCHANGED <<clock, storage, db, messagesTable, jobs, polling,
                   buttons, handled, events, history>>

\* the reminder button: update_data(movie_id), set_state(waiting_for_datetime)
callback_remind(u, upd) ==
    /\ Begin("callback_remind", u, upd)
    /\ storage' = [storage EXCEPT
                      ![u] = [state |-> "waiting_for_datetime",
                              data |-> update_data(@.data, IntOf(upd.id))]]
    /\ pressed' = [pressed EXCEPT ![u].remind = IntOf(upd.id)]
    /\ Answer(u, "write_datetime")
    /\ UNCHANGED <<clock, db, messagesTable, jobs, tasks, polling, buttons,
                   uploads, votes, favPresses>>

\* waiting_for_datetime: strptime, the future-time check, the pending movie
process_reminder(u, upd) ==
    /\ Begin("process_reminder", u, upd)
    /\ IF upd.text = NoText
       THEN Raise(u) /\ UNCHANGED tasks
       ELSE IF upd.text.k # "datetime"
       THEN Answer(u, "wrong_format") /\ UNCHANGED tasks
       ELSE IF upd.text.t <= clock
       THEN Answer(u, "late_time") /\ UNCHANGED tasks
       ELSE /\ Suspend(Task("process_reminder", u, upd, "execute",
                            storage[u].data.movie_id, NoFile, FALSE,
                            upd.text.t))
            /\ UNCHANGED lastOut
    /\ UNCHANGED <<clock, storage, db, messagesTable, jobs, polling,
                   buttons, history>>

\* waiting_for_datetime: the insert into reminders
process_reminder_execute(s) ==
    /\ At(s, "process_reminder", "execute")
    /\ LET t == tasks[s]
       IN  IF t.movie_id = NoMovie
           THEN \* NOT NULL violation on movie_id
                Raise(t.u) /\ Return(s) /\ UNCHANGED reminders
           ELSE /\ reminders' = Append(reminders, [user_id |-> t.u,
                                                   movie_id |-> t.movie_id,
                                                   remind_time |-> t.dt])
                /\ Resume(s, "add_job")
                /\ UNCHANGED lastOut
    /\ UNCHANGED <<clock, storage, movie_files, favorites, reviews, ratings,
                   messagesTable, jobs, polling, buttons, handled, events,
                   history>>

\* a slip: the job is dated now instead of dt
RunDateNow(dt) == clock

\* the run_date process_reminder gives the job
RunDate(dt) == dt

\* scheduler.add_job(send_reminder, 'date', run_date=dt, args=[user, movie])
add_job(user_id, movie_id, dt) ==
    Append(jobs, [user_id |-> user_id, movie_id |-> movie_id, dt |-> dt,
                  run_date |-> RunDate(dt), added |-> clock, pending |-> TRUE,
                  runs |-> 0, sent |-> 0])

\* waiting_for_datetime: add_job and the confirmation
process_reminder_add_job(s) ==
    /\ At(s, "process_reminder", "add_job")
    /\ LET t == tasks[s]
       IN  /\ jobs' = add_job(t.u, t.movie_id, t.dt)
           /\ Answer(t.u, "reminder_set")
    /\ Resume(s, "clear")
    /\ UNCHANGED <<clock, storage, db, messagesTable, polling, buttons,
                   handled, events, history>>

\* waiting_for_datetime, last step: state.clear()
process_reminder_clear(s) ==
    /\ At(s, "process_reminder", "clear")
    /\ storage' = [storage EXCEPT ![tasks[s].u] = Cleared]
    /\ Return(s)
    /\ UNCHANGED <<clock, db, messagesTable, jobs, polling, buttons,
                   lastOut, handled, events, history>>

\* the 'date' trigger: due once the clock has reached run_date
JobDue(job) == clock >= job.run_date

\* a 'date' job has no next fire time: the scheduler removes it when it runs
AfterRun(job) == [job EXCEPT !.pending = FALSE, !.runs = @ + 1]

\* misfire_grace_time is the scheduler's default of one second: a job the
\* scheduler comes to more than a second after run_date is skipped.  The
\* scheduler wakes at run_date for a job added before it; a job added in the
\* minute of run_date is up to a minute late, a job added after it is late
MayBeInTime(job) == job.added <= job.run_date
MayBeLate(job) == job.added >= job.run_date

\* the scheduler runs a due job: send_reminder(user_id, movie_id)
send_reminder(i) ==
    /\ jobs[i].pending
    /\ JobDue(jobs[i])
    /\ MayBeInTime(jobs[i])
    /\ LET file_id == FetchFileId(jobs[i].movie_id)
       IN  IF file_id # NoFile
           THEN /\ lastOut' = Out(jobs[i].user_id, "reminder", file_id,
                                  jobs[i].movie_id, FALSE, 0)
                /\ jobs' = [jobs EXCEPT ![i] = [AfterRun(@) EXCEPT !.sent = @ + 1]]
           ELSE /\ UNCHANGED lastOut
                /\ jobs' = [jobs EXCEPT ![i] = AfterRun(@)]
    /\ UNCHANGED <<clock, storage, db, messagesTable, tasks, polling,
                   buttons, handled, events, history>>

\* the scheduler comes to a due job too late: the run is skipped ("Run time of
\* job was missed") and the job, having no next fire time, is removed
job_missed(i) ==
    /\ jobs[i].pending
    /\ JobDue(jobs[i])
    /\ MayBeLate(jobs[i])
    /\ jobs' = [jobs EXCEPT ![i].pending = FALSE]
    /\ UNCHANGED <<clock, storage, db, messagesTable, tasks, polling,
                   buttons, lastOut, handled, events, history>>

\* /myfavorites: the favorites of the user that are movies
cmd_myfavorites(u, upd) ==
    /\ Begin("cmd_myfavorites", u, upd)
    /\ Answer(u, IF \E m \in Numbers : favorites[<<u, m>>] > 0
                                       /\ FetchFileId(m) # NoFile
                 THEN "my_favorites" ELSE "no_favorites")
    /\ UNCHANGED <<clock, storage, db, messagesTable, jobs, tasks, polling,
                   buttons, history>>

\* /mystats: four counts
cmd_mystats(u, upd) ==
    /\ Begin("cmd_mystats", u, upd)
    /\ Answer(u, "my_stats")
    /\ UNCHANGED <<clock, storage, db, messagesTable, jobs, tasks, polling,
                   buttons, history>>

\* any other message
unknown_message(u, upd) ==
    /\ Begin("unknown_message", u, upd)
    /\ Answer(u, "unknown_command")
    /\ UNCHANGED <<clock, storage, db, messagesTable, jobs, tasks, polling,
                   buttons, history>>

\* time passes
Tick ==
    /\ clock < MaxTime
    /\ clock' = clock + 1
    /\ UNCHANGED <<storage, db, messagesTable, jobs, tasks, polling,
                   buttons, lastOut, handled, events, history>>

(* -------------------------------------------------------- specification *)
\* the movies the database holds at start-up: none (a fresh database), or
\* movie 1 saved in an earlier run, whose keyboards are still in the chats
Earlier == {{}, {[number |-> 1, file_id |-> "v1"]}}

\* after init_db and scheduler.start(): the tables of the database (with or
\* without a table "messages" made outside the program), no FSM state, no job
InitWith(n, who, updates, earlier) ==
    /\ clock = 0
    /\ storage = [u \in Users |-> Cleared]
    /\ movie_files \in earlier
    /\ favorites = [p \in Pairs |-> 0]
    /\ reviews = <<>>
    /\ reminders = <<>>
    /\ ratings = {}
    /\ messagesTable \in BOOLEAN
    /\ jobs = <<>>
    /\ tasks = [s \in Slots |-> Idle]
    /\ concurrency = n
    /\ senders = who
    /\ budget = updates
    /\ buttons = {<<u, r.number>> : u \in Users, r \in movie_files}
    /\ lastOut = Out(0, "", NoFile, NoMovie, FALSE, 0)
    /\ handled = [h |-> "", u |-> 0, upd |-> NoUpdate, st |-> NoState,
                  nreviews |-> 0]
    /\ events = 0
    /\ uploads = [m \in Numbers |->
                    IF \E r \in movie_files : r.number = m
                    THEN <<FetchFileId(m)>> ELSE <<>>]
    /\ votes = [p \in Pairs |-> <<>>]
    /\ favPresses = [p \in Pairs |-> 0]
    /\ pressed = [u \in Users |-> [review |-> NoMovie, remind |-> NoMovie]]

\* movies 1 and 2 saved in an earlier run
Both == {{[number |-> 1, file_id |-> "v1"], [number |-> 2, file_id |-> "v2"]}}

Init == InitWith(1, Users, MaxEvents, Earlier)
ConcInit == InitWith(MaxTasks, Users, MaxEvents, Earlier)
\* the admin alone with the bot for one update more, movie 1 in the database
LongInit == InitWith(MaxTasks, ADMIN_IDS, MaxEvents + 1,
                     {{[number |-> 1, file_id |-> "v1"]}})
\* the admin alone with the bot, movies 1 and 2 in the database
TwoInit == InitWith(MaxTasks, ADMIN_IDS, MaxEvents, Both)

\* the messages that reach a message handler in some state
Reaching == [h \in {HandlerOrder[k] : k \in 1..Len(HandlerOrder)} |->
                {upd \in Messages : \E st \in States : MessageRoute[st, upd] = h}]

\* the updates of user u that can reach handler h: messages, or presses of
\* the buttons delivered to u
Updates(h, u) ==
    CASE h = "callback_fav" -> {x \in Presses(u) : x.action = "fav"}
      [] h = "callback_review" -> {x \in Presses(u) : x.action = "review"}
      [] h = "callback_rate" -> {x \in Presses(u) : x.action = "rate"}
      [] h = "callback_remind" -> {x \in Presses(u) : x.action = "remind"}
      [] OTHER -> Reaching[h]

\* an update arrives and its handler runs to its first suspension point
Receive ==
    \/ \E u \in senders : \E upd \in Updates("cmd_start", u) : cmd_start(u, upd)
    \/ \E u \in senders : \E upd \in Updates("movie_select", u) : movie_select(u, upd)
    \/ \E u \in senders : \E upd \in Updates("cmd_admin", u) : cmd_admin(u, upd)
    \/ \E u \in senders : \E upd \in Updates("admin_receive_video", u) : admin_receive_video(u, upd)
    \/ \E u \in senders : \E upd \in Updates("admin_receive_number", u) : admin_receive_number(u, upd)
    \/ \E u \in senders : \E upd \in Updates("cmd_reviews", u) : cmd_reviews(u, upd)
    \/ \E u \in senders : \E upd \in Updates("callback_fav", u) : callback_fav(u, upd)
    \/ \E u \in senders : \E upd \in Updates("callback_review", u) : callback_review(u, upd)
    \/ \E u \in senders : \E upd \in Updates("process_review", u) : process_review(u, upd)
    \/ \E u \in senders : \E upd \in Updates("callback_rate", u) : callback_rate(u, upd)
    \/ \E u \in senders : \E upd \in Updates("callback_remind", u) : callback_remind(u, upd)
    \/ \E u \in senders : \E upd \in Updates("process_reminder", u) : process_reminder(u, upd)
    \/ \E u \in senders : \E upd \in Updates("cmd_myfavorites", u) : cmd_myfavorites(u, upd)
    \/ \E u \in senders : \E upd \in Updates("cmd_mystats", u) : cmd_mystats(u, upd)
    \/ \E u \in senders : \E upd \in Updates("unknown_message", u) : unknown_message(u, upd)

\* a suspended handler runs to its next suspension point, or to its end
Continue ==
    \/ \E s \in Slots : cmd_admin_set_state(s)
    \/ \E s \in Slots : admin_receive_video_set_state(s)
    \/ \E s \in Slots : admin_receive_number_execute(s)
    \/ \E s \in Slots : admin_receive_number_clear(s)
    \/ \E s \in Slots : callback_fav_write(s)
    \/ \E s \in Slots : process_review_execute(s)
    \/ \E s \in Slots : process_review_clear(s)
    \/ \E s \in Slots : callback_rate_answer(s)
    \/ \E s \in Slots : process_reminder_execute(s)
    \/ \E s \in Slots : process_reminder_add_job(s)
    \/ \E s \in Slots : process_reminder_clear(s)

\* the scheduler comes to a due job: it runs it, or skips it as missed
Fire ==
    \/ \E i \in 1..Len(jobs) : send_reminder(i)
    \/ \E i \in 1..Len(jobs) : job_missed(i)

Next == Receive \/ Continue \/ Fire \/ Tick

Spec == Init /\ [][Next]_vars
ConcSpec == ConcInit /\ [][Next]_vars
LongSpec == LongInit /\ [][Next]_vars
TwoSpec == TwoInit /\ [][Next]_vars

\* nothing has been stored but one upload per number: the tables, the jobs
\* and the counts of presses and votes are empty
Quiet ==
    /\ reviews = <<>>
    /\ reminders = <<>>
    /\ jobs = <<>>
    /\ ratings = {}
    /\ \A p \in Pairs : favorites[p] = 0 /\ favPresses[p] = 0 /\ votes[p] = <<>>
    /\ \A n \in Numbers : Len(uploads[n]) <= 1

\* polling never ends: the updates of a run that has stored nothing are not
\* counted against the run, which so goes on for ever; a run that has stored
\* something is followed to its budget
Again ==
    /\ events = budget
    /\ InFlight = {}
    /\ Quiet
    /\ events' = budget - 1
    /\ UNCHANGED <<clock, storage, db, messagesTable, jobs, tasks, polling,
                   buttons, lastOut, handled, history>>

\* the run is at its budget and not followed further
Spent == events = budget /\ ~Quiet

LiveInit == InitWith(1, ADMIN_IDS, MaxEvents, Earlier)
LiveNext == Next \/ Again

\* the user keeps sending updates, every started handler runs to its end
LiveSpec ==
    /\ LiveInit
    /\ [][LiveNext]_vars
    /\ WF_vars(Receive)
    /\ WF_vars(Continue)
    /\ WF_vars(Again)

(* --------------------------------------------------------------- claims *)
IsText(upd) == upd.type = "message" /\ upd.text # NoText

\* the handler registered with StateFilter(st)
StateHandler(st) ==
    CASE st = "waiting_for_video" -> "admin_receive_video"
      [] st = "waiting_for_number" -> "admin_receive_number"
      [] st = "waiting_for_review" -> "process_review"
      [] st = "waiting_for_datetime" -> "process_reminder"

\* the update last received was the dispatcher's last step
Received == events' = events + 1

\* C1: a message from a user whose state is not none, of a shape the state
\* accepts (any message in waiting_for_video, a text in the other states), is
\* handled by that state's handler, before the commands and the movie lookup.
C1_StatePrecedence ==
    (/\ handled.upd.type = "message"
     /\ handled.st # NoState
     /\ (handled.st = "waiting_for_video" \/ IsText(handled.upd)))
    => handled.h = StateHandler(handled.st)

\* C2: a text sent in waiting_for_review, whatever it says, once handled has
\* added exactly one row to reviews and left the user in state none.
C2_ReviewStored ==
    (/\ handled.st = "waiting_for_review"
     /\ IsText(handled.upd)
     /\ InFlight = {})
    => /\ Len(reviews) = handled.nreviews + 1
       /\ storage[handled.u].state = NoState

\* C3: the job of a reminder with fire time T (dt) has run at most once, and
\* has not run while the clock was before T.
C3_FiresOnceNotEarly ==
    \A i \in 1..Len(jobs) :
        /\ jobs[i].runs <= 1
        /\ jobs[i].runs > 0 => clock >= jobs[i].dt

\* C3, its case: a reminder was set for T and its job has run
C3_Witness ==
    \E i \in 1..Len(jobs) :
        /\ jobs[i].runs = 1
        /\ jobs[i].dt >= 1
        /\ i <= Len(reminders)
        /\ reminders[i].remind_time = jobs[i].dt

\* C4: a text sent in waiting_for_datetime that is no datetime, or a datetime
\* not after now, gets an error reply; no reminder row, no job, and the state
\* and the pending movie of the user stay as they are.
C4_BadDatetimeRejected ==
    [][(/\ Received
        /\ handled'.st = "waiting_for_datetime"
        /\ IsText(handled'.upd)
        /\ (handled'.upd.text.k # "datetime" \/ handled'.upd.text.t <= clock))
       => /\ lastOut'.to = handled'.u
          /\ lastOut'.kind \in {"wrong_format", "late_time"}
          /\ reminders' = reminders
          /\ jobs' = jobs
          /\ storage'[handled'.u] = storage[handled'.u]
          /\ tasks' = tasks]_vars

\* C5: a user outside ADMIN_IDS is never in waiting_for_video or
\* waiting_for_number, and every change of movie_files is the upsert step of
\* admin_receive_number handling a message of a user in ADMIN_IDS.
C5_NoUploadState ==
    \A u \in Users \ ADMIN_IDS :
        storage[u].state \notin {"waiting_for_video", "waiting_for_number"}

C5_AdminAuthorization ==
    /\ []C5_NoUploadState
    /\ [][movie_files' # movie_files
          => \E s \in Slots :
                /\ At(s, "admin_receive_number", "execute")
                /\ tasks[s].u \in ADMIN_IDS
                /\ tasks'[s].pc = "clear"]_vars

\* C5, its case: a user outside ADMIN_IDS sent /admin and was turned away,
\* and an admin is in the upload flow with a movie saved
C5_Witness ==
    /\ handled.h = "cmd_admin"
    /\ handled.u \notin ADMIN_IDS
    /\ lastOut.kind = "contact_admin"
    /\ movie_files # {}
    /\ \E a \in ADMIN_IDS : storage[a].state = "waiting_for_video"

MovieRows(n) == {r \in movie_files : r.number = n}

\* C6: movie_files holds at most one row per number, the row of n holds the
\* file id of the last upload saved as +n, and a row is never removed.
C6_RowIsLatestUpload ==
    \A n \in Numbers :
        MovieRows(n) = IF uploads[n] = <<>> THEN {}
                       ELSE {[number |-> n,
                              file_id |-> uploads[n][Len(uploads[n])]]}

C6_OneRowLatestKept ==
    /\ []C6_RowIsLatestUpload
    /\ [][\A n \in Numbers : MovieRows(n) # {} => MovieRows(n)' # {}]_vars

\* C6, its case: a number was uploaded twice, with different videos
C6_Witness ==
    \E n \in Numbers :
        /\ Len(uploads[n]) = 2
        /\ uploads[n][1] # uploads[n][2]
        /\ Cardinality(MovieRows(n)) = 1

\* C7: with the presses of a pair handled one after another, starting from no
\* row, the favorite row is there after an odd number and gone after an even
\* number of presses.
C7_FavoriteParity ==
    \A p \in Pairs :
        (\A s \in Slots : ~(tasks[s].h = "callback_fav" /\ tasks[s].u = p[1]
                            /\ tasks[s].movie_id = p[2]))
        => favorites[p] = favPresses[p] % 2

\* C7, its case: one pair pressed twice, another pressed once
C7_Witness ==
    \E p, q \in Pairs :
        /\ favPresses[p] = 2 /\ favorites[p] = 0
        /\ favPresses[q] = 1 /\ favorites[q] = 1

RatingRows(p) == {r \in ratings : r.user_id = p[1] /\ r.movie_id = p[2]}
Voters(m) == {u \in Users : votes[<<u, m>>] # <<>>}
LatestVote(p) == votes[p][Len(votes[p])]

RECURSIVE SumLatest(_, _)
SumLatest(m, users) ==
    IF users = {} THEN 0
    ELSE LET u == CHOOSE x \in users : TRUE
         IN  LatestVote(<<u, m>>) + SumLatest(m, users \ {u})

\* C8: ratings holds exactly one row per pair that voted, with the stars of
\* its latest vote, and the AVG of a movie is the mean of the latest votes of
\* the users who rated it.
C8_LatestVoteAndMean ==
    /\ \A p \in Pairs :
          RatingRows(p) = IF votes[p] = <<>> THEN {}
                          ELSE {[user_id |-> p[1], movie_id |-> p[2],
                                 stars |-> LatestVote(p)]}
    /\ \A m \in Numbers :
          LET avg == AvgStars(m)
          IN  /\ avg[2] = Cardinality(Voters(m))
              /\ avg[1] * Cardinality(Voters(m)) = SumLatest(m, Voters(m)) * avg[2]

\* C8, its case: a user voted twice, differently, and another user voted too
C8_Witness ==
    \E m \in Numbers : \E u, v \in Users :
        /\ u # v
        /\ Len(votes[<<u, m>>]) = 2
        /\ votes[<<u, m>>][1] # votes[<<u, m>>][2]
        /\ votes[<<v, m>>] # <<>>
        /\ AvgStars(m)[2] = 2

\* the reply to a lookup of the all-digit text d by user u that the claim
\* describes: the video of the latest upload with its caption, or "not found"
LookupReply(u, d) ==
    IF FitsInt32(d) /\ MovieRows(IntOf(d)) # {}
    THEN Out(u, "video", uploads[IntOf(d)][Len(uploads[IntOf(d)])], IntOf(d),
             \E r \in ratings : r.movie_id = IntOf(d),
             IF \E r \in ratings : r.movie_id = IntOf(d)
             THEN Tenths(AvgStars(IntOf(d))) ELSE 0)
    ELSE Out(u, "not_found", NoFile, NoMovie, FALSE, 0)

\* C9: an all-digit text n from a user in state none is answered with the
\* video of the latest upload of n, captioned Kino #n, with a rating line
\* exactly when n has a rating row, or with "not found" when n has no row;
\* the tables and the state of the user stay as they are.
C9_MovieLookup ==
    [][(/\ Received
        /\ handled'.st = NoState
        /\ handled'.upd.type = "message"
        /\ handled'.upd.text.k = "digits")
       => /\ lastOut' = LookupReply(handled'.u, handled'.upd.text.d)
          /\ UNCHANGED <<db, storage>>]_vars

\* C9 for the numbers an INTEGER column holds
C9_MovieLookupInRange ==
    [][(/\ Received
        /\ handled'.st = NoState
        /\ handled'.upd.type = "message"
        /\ handled'.upd.text.k = "digits"
        /\ FitsInt32(handled'.upd.text.d))
       => /\ lastOut' = LookupReply(handled'.u, handled'.upd.text.d)
          /\ UNCHANGED <<db, storage>>]_vars

\* C10: waiting_for_video, waiting_for_review and waiting_for_datetime are
\* entered from state none only, and waiting_for_number from
\* waiting_for_video only.
C10_EnteredFromNone ==
    [][\A u \in Users :
          storage'[u].state # storage[u].state
          => /\ storage'[u].state \in {"waiting_for_video", "waiting_for_review",
                                       "waiting_for_datetime"}
                => storage[u].state = NoState
             /\ storage'[u].state = "waiting_for_number"
                => storage[u].state = "waiting_for_video"]_vars

\* C11: a user who is in waiting_for_video, waiting_for_number,
\* waiting_for_review or waiting_for_datetime is in state none again later on,
\* given that the user keeps sending updates and every handler runs to its
\* end (as far as the run is followed).
C11_FlowsReturnToNone ==
    \A u \in Users :
        (storage[u].state # NoState) ~> (storage[u].state = NoState \/ Spent)

\* C12: a message handled in waiting_for_video that carries no video, and a
\* message handled in waiting_for_number that is not "+" and digits (a message
\* with no text too), is answered with the error reply; the state and the
\* pending video of the user and movie_files stay as they are, and the handler
\* returns (no exception, nothing left in flight).
C12_UploadInputErrors ==
    [][(/\ Received
        /\ \/ /\ handled'.h = "admin_receive_video"
              /\ handled'.upd.video = NoFile
           \/ /\ handled'.h = "admin_receive_number"
              /\ handled'.upd.text.k # "plus")
       => /\ lastOut'.to = handled'.u
          /\ lastOut'.kind = (IF handled'.h = "admin_receive_video"
                              THEN "only_video" ELSE "plus_number_please")
          /\ storage'[handled'.u] = storage[handled'.u]
          /\ movie_files' = movie_files
          /\ tasks' = tasks]_vars

\* C12 for the messages that carry a text
C12_UploadInputErrorsOfTexts ==
    [][(/\ Received
        /\ \/ /\ handled'.h = "admin_receive_video"
              /\ handled'.upd.video = NoFile
           \/ /\ handled'.h = "admin_receive_number"
              /\ handled'.upd.text # NoText
              /\ handled'.upd.text.k # "plus")
       => /\ lastOut'.to = handled'.u
          /\ lastOut'.kind = (IF handled'.h = "admin_receive_video"
                              THEN "only_video" ELSE "plus_number_please")
          /\ storage'[handled'.u] = storage[handled'.u]
          /\ movie_files' = movie_files
          /\ tasks' = tasks]_vars

\* C13: the fire time of a reminder is later than the clock when its row is
\* inserted into reminders and when its job is added to the scheduler, also
\* when the clock moves while process_reminder is suspended after its check.
C13_FutureAtCreation ==
    [][/\ Len(reminders') > Len(reminders)
          => reminders'[Len(reminders')].remind_time > clock'
       /\ Len(jobs') > Len(jobs)
          => jobs'[Len(jobs')].dt > clock']_vars

\* C14: a reminder whose job was added with fire time T has its notification
\* delivered exactly once, after the clock has reached T.  A job is one-shot:
\* once the scheduler has removed it, it is never run again, so delivery
\* happens by then or never; a job removed has delivered once, and not early.
C14_DeliveredOnce ==
    \A i \in 1..Len(jobs) :
        /\ jobs[i].sent <= 1
        /\ jobs[i].sent > 0 => clock >= jobs[i].dt
        /\ ~jobs[i].pending => jobs[i].sent = 1

\* C14 for the jobs added before their fire time
C14_DeliveredOnceAddedInTime ==
    \A i \in 1..Len(jobs) :
        /\ jobs[i].sent <= 1
        /\ jobs[i].sent > 0 => clock >= jobs[i].dt
        /\ (~jobs[i].pending /\ jobs[i].added < jobs[i].dt) => jobs[i].sent = 1

\* C15: for every key (user, movie, fire time) send_reminder is called at most
\* once, also when the user has set the same reminder more than once.
C15_OneCallPerKey ==
    \A i, j \in 1..Len(jobs) :
        (/\ i # j
         /\ jobs[i].user_id = jobs[j].user_id
         /\ jobs[i].movie_id = jobs[j].movie_id
         /\ jobs[i].dt = jobs[j].dt)
        => jobs[i].runs + jobs[j].runs <= 1

\* C16: the movie process_review reads when it takes a message is the movie of
\* the user's last review press, the one that put the user into
\* waiting_for_review, and the row it inserts carries that movie; the same for
\* process_reminder, the last reminder press, the reminder row and its job;
\* whatever the user pressed and sent before, and however handlers interleave.
C16_PendingMovieBound ==
    [][/\ \A s \in Slots :
            (tasks[s].h = "idle" /\ tasks'[s].h = "process_review")
            => tasks'[s].movie_id = pressed[tasks'[s].u].review
       /\ \A s \in Slots :
            (tasks[s].h = "idle" /\ tasks'[s].h = "process_reminder")
            => tasks'[s].movie_id = pressed[tasks'[s].u].remind
       /\ Len(reviews') > Len(reviews)
          => \E s \in Slots :
                /\ At(s, "process_review", "execute")
                /\ tasks'[s] # tasks[s]
                /\ reviews'[Len(reviews')].user_id = tasks[s].u
                /\ reviews'[Len(reviews')].movie_id = tasks[s].movie_id
       /\ Len(reminders') > Len(reminders)
          => \E s \in Slots :
                /\ At(s, "process_reminder", "execute")
                /\ tasks'[s] # tasks[s]
                /\ reminders'[Len(reminders')].user_id = tasks[s].u
                /\ reminders'[Len(reminders')].movie_id = tasks[s].movie_id
       /\ Len(jobs') > Len(jobs)
          => \E s \in Slots :
                /\ At(s, "process_reminder", "add_job")
                /\ tasks'[s] # tasks[s]
                /\ jobs'[Len(jobs')].user_id = tasks[s].u
                /\ jobs'[Len(jobs')].movie_id = tasks[s].movie_id]_vars

\* C16, its case: a user pressed the reminder button of one movie, then the
\* review button of another, and the review sent carries the latter
C16_Witness ==
    \E u \in Users :
        /\ pressed[u].remind # NoMovie
        /\ pressed[u].review # NoMovie
        /\ pressed[u].review # pressed[u].remind
        /\ Len(reviews) = 1
        /\ reviews[1].user_id = u
        /\ reviews[1].movie_id = pressed[u].review

\* the favorite-button handlers of pair p that are suspended between their
\* read of the row and their insert or delete
FavInFlight(p) ==
    {s \in Slots : /\ tasks[s].h = "callback_fav"
                   /\ tasks[s].u = p[1]
                   /\ tasks[s].movie_id = p[2]}

\* C17: favorites never holds more than one row of a (user, movie) pair, and
\* two presses of a pair that have both completed, interleaved or not, leave
\* the pair as it was before them: without a row, as at the start.
C17_OneRowAndTwoPressesCancel ==
    \A p \in Pairs :
        /\ favorites[p] <= 1
        /\ (favPresses[p] = 2 /\ FavInFlight(p) = {}) => favorites[p] = 0

\* C17, its first half: at most one row per pair
C17_AtMostOneRow == \A p \in Pairs : favorites[p] <= 1

\* the state a handler that ends with state.clear() is registered for
StateOf(h) ==
    CASE h = "admin_receive_number" -> "waiting_for_number"
      [] h = "process_review" -> "waiting_for_review"
      [] h = "process_reminder" -> "waiting_for_datetime"

\* C18: when admin_receive_number, process_review or process_reminder comes
\* to its state.clear() and the user is no longer in the state the handler
\* was dispatched in but in one that /admin, a review press or a reminder
\* press has set since, the clear leaves that state and its data alone.
C18_NoLostStateWrite ==
    [][\A s \in Slots :
          (/\ tasks[s].pc = "clear"
           /\ tasks'[s] = Idle
           /\ storage[tasks[s].u].state \in
                 {"waiting_for_video", "waiting_for_review",
                  "waiting_for_datetime"} \ {StateOf(tasks[s].h)})
          => storage'[tasks[s].u] = storage[tasks[s].u]]_vars

\* C19: a user in waiting_for_number has a pending video in the data, and
\* admin_receive_number never answers "video not found, start /admin again".
C19_PendingVideoSet ==
    /\ \A u \in Users :
          storage[u].state = "waiting_for_number"
          => storage[u].data.video_file_id # NoFile
    /\ lastOut.kind # "video_missing"

\* C20: every row of favorites, ratings, reviews and reminders names a movie
\* that has a row in movie_files, and every run of send_reminder finds the
\* file id and sends the notification.
C20_RowsReferenceMovies ==
    /\ \A p \in Pairs : favorites[p] > 0 => MovieRows(p[2]) # {}
    /\ \A r \in ratings : MovieRows(r.movie_id) # {}
    /\ \A i \in 1..Len(reviews) : MovieRows(reviews[i].movie_id) # {}
    /\ \A i \in 1..Len(reminders) : MovieRows(reminders[i].movie_id) # {}
    /\ \A i \in 1..Len(jobs) : jobs[i].sent = jobs[i].runs

\* C20, its case: a favorite row, a reminder row, and the reminder's job has
\* run and sent the video
C20_Witness ==
    /\ \E p \in Pairs : favorites[p] > 0
    /\ reminders # <<>>
    /\ \E i \in 1..Len(jobs) : jobs[i].runs = 1 /\ jobs[i].sent = 1

====
